---- MODULE Spec2Model ----
(***************************************************************************)
(* Noisy-channel spelling corrector (src/spelling_correction.py).          *)
(*                                                                         *)
(* A string is a sequence of one-character strings.  A probability is a    *)
(* ratio [num, den] of naturals: math.log is strictly increasing, so the   *)
(* sum of two logarithms is compared as the product of the two ratios,     *)
(* and -inf (the logarithm of probability zero) is the ratio 0/1.  A       *)
(* division by zero raises ZeroDivisionError.  Floating-point rounding is  *)
(* not modelled.                                                           *)
(***************************************************************************)
EXTENDS FiniteSets, Integers, Sequences, TLC

\* ------------------------------------------------------------------ bounds
MaxLen == 2
MaxVocab == 2
MaxFreq == 1

\* ------------------------------------------------------------- characters
\* self.alphabet; the model keeps the first two of its 26 letters
alphabet == <<"a", "b">>

\* the upper-case forms of the letters, in the same order
Capitals == <<"A", "B">>

Range(s) == {s[i] : i \in 1..Len(s)}

LetterIndex(c) == CHOOSE i \in 1..Len(alphabet) : alphabet[i] = c

\* the upper-case form of a letter
UpperChar(c) ==
    IF \E i \in 1..Len(alphabet) : alphabet[i] = c
    THEN Capitals[LetterIndex(c)]
    ELSE c

\* str.upper() called where str.lower() is meant
RaisedChar(c) == UpperChar(c)

\* str.lower() on one character
LowerChar(c) ==
    IF \E i \in 1..Len(Capitals) : Capitals[i] = c
    THEN alphabet[CHOOSE i \in 1..Len(Capitals) : Capitals[i] = c]
    ELSE c

\* original_word.lower()
lower(s) == [i \in 1..Len(s) |-> LowerChar(s[i])]

Strings(chars, n) == UNION {[1..k -> chars] : k \in 0..n}

\* a character that is no letter
Digit == "1"

\* the strings handed to correct: the letters, an upper-case letter, a digit
InputChars == Range(alphabet) \cup {Capitals[1], Digit}
Inputs == Strings(InputChars, MaxLen)

\* ------------------------------------------------------------ dictionaries
EmptyTable == [k \in {} |-> 0]

\* dict.get(key, 0): the value read
Get(d, k) == IF k \in DOMAIN d THEN d[k] ELSE 0

\* defaultdict.__getitem__ (counts[key]): reading an absent key inserts it
\* with int() = 0
AfterGetItem(d, k) == IF k \in DOMAIN d THEN d ELSE d @@ (k :> 0)

\* dict.get(key, 0): the dictionary after the read; get never inserts
AfterGet(d, k) == d

RECURSIVE TouchAll(_, _)
TouchAll(d, K) ==
    IF K = {} THEN d
    ELSE LET k == CHOOSE x \in K : TRUE
         IN TouchAll(AfterGet(d, k), K \ {k})

RECURSIVE SumValues(_, _)
SumValues(d, K) ==
    IF K = {} THEN 0
    ELSE LET k == CHOOSE x \in K : TRUE
         IN d[k] + SumValues(d, K \ {k})

\* sum(counts.values())
Total(d) == SumValues(d, DOMAIN d)

\* ------------------------------------------------- the loaded count tables
\* A count file is either empty (a header and no rows) or holds counts that
\* differ from key to key and lack some keys.
CharIndex(c) == IF c = "#" THEN 0 ELSE LetterIndex(c)

GradedUnigrams == [c \in Range(alphabet) |-> LetterIndex(c)]

GradedBigrams ==
    [k \in Range(alphabet) \X Range(alphabet) |-> LetterIndex(k[1]) * LetterIndex(k[2])]

GradedSubs ==
    [k \in {p \in Range(alphabet) \X Range(alphabet) : p[1] # p[2]}
        |-> LetterIndex(k[1]) + 2 * LetterIndex(k[2])]

GradedDels ==
    [k \in Range(alphabet) \X Range(alphabet) |-> LetterIndex(k[1]) + LetterIndex(k[2])]

GradedAdds ==
    [k \in (Range(alphabet) \cup {"#"}) \X Range(alphabet)
        |-> CharIndex(k[1]) + LetterIndex(k[2])]

\* the five count files: <<unigrams, bigrams, subs, dels, adds>>
Corpora ==
    {<<EmptyTable, EmptyTable, EmptyTable, EmptyTable, EmptyTable>>,
     <<GradedUnigrams, GradedBigrams, GradedSubs, GradedDels, GradedAdds>>,
     <<GradedUnigrams, GradedBigrams, EmptyTable, EmptyTable, EmptyTable>>,
     <<GradedUnigrams, EmptyTable, GradedSubs, GradedDels, GradedAdds>>}

\* the words of word_frequencies: one- and two-letter lower-case words
VocabWords == UNION {[1..k -> Range(alphabet)] : k \in 1..2}

\* at most MaxVocab words, all with one frequency or each with its length
VocabTables ==
    UNION {{[w \in V |-> f] : f \in 0..MaxFreq} \cup {[w \in V |-> Len(w)]} :
             V \in {S \in SUBSET VocabWords : Cardinality(S) <= MaxVocab}}

\* SpellingCorrector.__init__
Construct(unigrams, bigrams, subs, dels, adds, vocabfile) ==
    [unigram_counts |-> unigrams,
     bigram_counts |-> bigrams,
     sub_counts |-> subs,
     del_counts |-> dels,
     add_counts |-> adds,
     vocab |-> vocabfile,
     vocabulary |-> DOMAIN vocabfile,
     total_word_count |-> Total(vocabfile),
     total_unigram_count |-> Total(unigrams),
     total_bigram_count |-> Total(bigrams)]

\* ------------------------------------------------------ candidate generation
\* Python slices s[a:b] with 0-based bounds, clamped to the string
Slice(s, a, b) ==
    LET lo == IF a < 0 THEN 0 ELSE IF a > Len(s) THEN Len(s) ELSE a
        hi == IF b < 0 THEN 0 ELSE IF b > Len(s) THEN Len(s) ELSE b
    IN IF hi <= lo THEN <<>> ELSE SubSeq(s, lo + 1, hi)

\* the splits of range(len(word)): the split at the end of the word is missing
splitsShort(word) ==
    {<<Slice(word, 0, i), Slice(word, i, Len(word))>> : i \in 0..(Len(word) - 1)}

\* splits = [(word[:i], word[i:]) for i in range(len(word) + 1)]
splits(word) ==
    {<<Slice(word, 0, i), Slice(word, i, Len(word))>> : i \in 0..Len(word)}

deletes(word) ==
    {sp[1] \o Tail(sp[2]) : sp \in {s \in splits(word) : s[2] # <<>>}}

transposes(word) ==
    {sp[1] \o <<sp[2][2], sp[2][1]>> \o Slice(sp[2], 2, Len(sp[2])) :
        sp \in {s \in splits(word) : Len(s[2]) > 1}}

replaces(word) ==
    {sp[1] \o <<c>> \o Tail(sp[2]) :
        sp \in {s \in splits(word) : s[2] # <<>>}, c \in Range(alphabet)}

inserts(word) ==
    {sp[1] \o <<c>> \o sp[2] : sp \in splits(word), c \in Range(alphabet)}

\* SpellingCorrector._generate_candidates
generate_candidates(self, word) ==
    LET all_edits == deletes(word) \cup transposes(word) \cup replaces(word) \cup inserts(word)
    IN {w \in all_edits : w \in self.vocabulary}

\* ------------------------------------------------------------- prior model
\* SpellingCorrector._log_prior_prob, as the ratio inside math.log
log_prior_prob(self, word) ==
    [num |-> Get(self.vocab, word) + 1,
     den |-> self.total_word_count + Cardinality(self.vocabulary)]

\* ----------------------------------------------------------- channel model
NoGets == [unigram |-> {}, bigram |-> {}, sub |-> {}, del |-> {}, add |-> {}]

Min(S) == CHOOSE x \in S : \A y \in S : x <= y

\* the 1-based positions at which the loop over long_ returns:
\* i >= len(short) or short[i] != long_[i]
Divergences(long_, short) ==
    {j \in 1..Len(long_) : j > Len(short) \/ short[j] # long_[j]}

\* s[i] for a 0-based i that may be -1 (Python wraps to the last character)
At(s, i) == IF i < 0 THEN s[Len(s) + i + 1] ELSE s[i + 1]

\* candidate[i] taken for the prefix instead of candidate[i-1]
DelPrefixAt(candidate, i) == At(candidate, i)

\* prefix = candidate[i-1] in the deletion branch
DelPrefix(candidate, i) == At(candidate, i - 1)

\* the deletion branch, lines 68-79; i is 0-based
DeletionProb(self, typo, candidate) ==
    LET i == Min(Divergences(candidate, typo)) - 1
        prefix == DelPrefix(candidate, i)
        deleted_char == At(candidate, i)
        bigram == Slice(candidate, i - 1, i + 1)
        del_count == Get(self.del_counts, <<prefix, deleted_char>>)
        bigram_count == IF Len(bigram) = 2
                        THEN Get(self.bigram_counts, bigram)
                        ELSE Get(self.unigram_counts, prefix)
    IN [kind |-> "deletion",
        num |-> del_count + 1,
        den |-> bigram_count + self.total_bigram_count,
        gets |-> [NoGets EXCEPT
                    !.del = {<<prefix, deleted_char>>},
                    !.bigram = IF Len(bigram) = 2 THEN {bigram} ELSE {},
                    !.unigram = IF Len(bigram) = 2 THEN {} ELSE {prefix}]]

\* the insertion branch, lines 82-92
InsertionProb(self, typo, candidate) ==
    LET i == Min(Divergences(typo, candidate)) - 1
        prefix == At(candidate, i - 1)
        added_char == At(typo, i)
        add_count == Get(self.add_counts, <<prefix, added_char>>)
        prefix_count == IF prefix # "#"
                        THEN Get(self.unigram_counts, prefix)
                        ELSE self.total_word_count
    IN [kind |-> "insertion",
        num |-> add_count + 1,
        den |-> prefix_count + self.total_unigram_count,
        gets |-> [NoGets EXCEPT
                    !.add = {<<prefix, added_char>>},
                    !.unigram = IF prefix # "#" THEN {prefix} ELSE {}]]

\* return -float('inf'), line 116
Unclassifiable == [kind |-> "unclassifiable", num |-> 0, den |-> 1, gets |-> NoGets]

\* the swap test with the two characters compared to themselves
IsSwapSame(i1, t1, c1, i2, t2, c2) == i2 = i1 + 1 /\ t1 = c1 /\ t2 = c2

\* i2 == i1 + 1 and t1 == c2 and t2 == c1, line 112
IsSwap(i1, t1, c1, i2, t2, c2) == i2 = i1 + 1 /\ t1 = c2 /\ t2 = c1

\* the equal-length branch, lines 95-114
SameLengthProb(self, typo, candidate) ==
    LET diffs == {j \in 1..Len(typo) : typo[j] # candidate[j]}
    IN IF Cardinality(diffs) = 1
       THEN LET j == Min(diffs)
                typo_char == typo[j]
                cand_char == candidate[j]
            IN [kind |-> "substitution",
                num |-> Get(self.sub_counts, <<cand_char, typo_char>>) + 1,
                den |-> Get(self.unigram_counts, cand_char) + self.total_unigram_count,
                gets |-> [NoGets EXCEPT !.sub = {<<cand_char, typo_char>>},
                                        !.unigram = {cand_char}]]
       ELSE IF Cardinality(diffs) = 2
       THEN LET j1 == Min(diffs)
                j2 == Min(diffs \ {j1})
            IN IF IsSwap(j1, typo[j1], candidate[j1], j2, typo[j2], candidate[j2])
               THEN [kind |-> "transposition",
                     num |-> 1,
                     den |-> self.total_word_count,
                     gets |-> NoGets]
               ELSE Unclassifiable
       ELSE Unclassifiable

\* SpellingCorrector._log_channel_prob, as the ratio inside math.log
log_channel_prob(self, typo0, candidate0) ==
    LET typo == <<"#">> \o typo0
        candidate == <<"#">> \o candidate0
    IN IF Len(typo) < Len(candidate)
       THEN IF Divergences(candidate, typo) = {} THEN Unclassifiable
            ELSE DeletionProb(self, typo, candidate)
       ELSE IF Len(typo) > Len(candidate)
       THEN IF Divergences(typo, candidate) = {} THEN Unclassifiable
            ELSE InsertionProb(self, typo, candidate)
       ELSE SameLengthProb(self, typo, candidate)

\* the tables after the lookups of one channel computation
Touch(self, gets) ==
    [self EXCEPT
        !.unigram_counts = TouchAll(@, gets.unigram),
        !.bigram_counts = TouchAll(@, gets.bigram),
        !.sub_counts = TouchAll(@, gets.sub),
        !.del_counts = TouchAll(@, gets.del),
        !.add_counts = TouchAll(@, gets.add)]

\* ---------------------------------------------------------------- corrector
\* candidates before line 141 has run
Unset == {<<"<unset>">>}
NoResult == <<"<no result>">>

\* the known-word test negated
IsKnownNegated(self, word) == word \notin self.vocabulary

\* if word in self.vocabulary, line 137
IsKnown(self, word) == word \in self.vocabulary

\* the lower-cased word returned where there is no candidate
ReturnLowered(original_word, word) == word

\* return original_word, line 144
ReturnNoCandidates(original_word, word) == original_word

\* log_prior + log_channel: the product of the two ratios
Score(prior, channel) ==
    [num |-> prior.num * channel.num, den |-> prior.den * channel.den]

\* a < b, the comparison of min
GreaterSwapped(a, b) == a.num * b.den < b.num * a.den

\* a > b on scores; max replaces its best only by a strictly greater one
Greater(a, b) == a.num * b.den > b.num * a.den

\* lines 150-151 for one candidate, the ratios of prior and channel given:
\* a zero denominator raises ZeroDivisionError, otherwise the score is stored
Scored(st, cand, prior, channel) ==
    [self |-> Touch(st.self, channel.gets),
     scored |-> IF channel.den = 0 THEN st.scored
                ELSE st.scored @@ (cand :> Score(prior, channel)),
     classified |-> st.classified @@
                      (cand :> [kind |-> channel.kind, num |-> channel.num,
                                den |-> channel.den]),
     raised |-> channel.den = 0]

\* line 149 for one candidate, then lines 150-151
ScoreOne(st, word, cand, prior) ==
    IF prior.den = 0
    THEN [st EXCEPT !.self.vocab = AfterGet(@, cand), !.raised = TRUE]
    ELSE Scored([st EXCEPT !.self.vocab = AfterGet(@, cand)], cand, prior,
                log_channel_prob(st.self, word, cand))

\* the for loop of lines 148-151 over the candidates in iteration order;
\* st = [self, scored, classified, raised]
RECURSIVE ScoreLoop(_, _, _, _)
ScoreLoop(st, word, order, k) ==
    IF k > Len(order) \/ st.raised THEN st
    ELSE ScoreLoop(ScoreOne(st, word, order[k], log_prior_prob(st.self, order[k])),
                   word, order, k + 1)

\* max(scored_candidates, key=scored_candidates.get) over a non-empty dict
\* whose keys are iterated in insertion order
RECURSIVE MaxScan(_, _, _, _)
MaxScan(scored, order, k, best) ==
    IF k > Len(order) THEN best
    ELSE MaxScan(scored, order, k + 1,
                 IF Greater(scored[order[k]], scored[best]) THEN order[k] ELSE best)

PyMax(scored, order) == MaxScan(scored, order, 2, order[1])

Perms(S) ==
    {f \in [1..Cardinality(S) -> S] : \A x \in S : \E i \in 1..Cardinality(S) : f[i] = x}

\* the orders in which `for cand in candidates` may yield the candidate set
\* of a call: a set of str is iterated in the order of the string hashes,
\* and Python draws the hash seed anew for every process
IterOrders(self, original_word) ==
    IF IsKnown(self, lower(original_word)) THEN {<<>>}
    ELSE Perms(generate_candidates(self, lower(original_word)))

\* how a call ends: the object, the locals, and the value returned or the
\* exception
Ended(self, word, candidates, st, outcome, result, line) ==
    [self |-> self, word |-> word, candidates |-> candidates,
     scored |-> st.scored, classified |-> st.classified,
     outcome |-> outcome, result |-> result, line |-> line]

NothingScored(self) ==
    [self |-> self, scored |-> EmptyTable, classified |-> EmptyTable, raised |-> FALSE]

\* lines 153-157, after the loop
AfterLoop(original_word, word, candidates, order, st) ==
    IF st.raised
    THEN Ended(st.self, word, candidates, st, "raised", NoResult, 0)
    ELSE IF DOMAIN st.scored = {}
    THEN Ended(st.self, word, candidates, st, "returned", original_word, 155)
    ELSE Ended(st.self, word, candidates, st, "returned", PyMax(st.scored, order), 157)

\* lines 143-151, the candidates generated
AfterGenerate(self, original_word, word, candidates, order) ==
    IF candidates = {}
    THEN Ended(self, word, candidates, NothingScored(self), "returned",
               ReturnNoCandidates(original_word, word), 144)
    ELSE AfterLoop(original_word, word, candidates, order,
                   ScoreLoop(NothingScored(self), word, order, 1))

\* lines 137-141, the input lower-cased
AfterLower(self, original_word, word, order) ==
    IF IsKnown(self, word)
    THEN Ended(self, word, Unset, NothingScored(self), "returned", word, 138)
    ELSE AfterGenerate(self, original_word, word, generate_candidates(self, word), order)

\* SpellingCorrector.correct; order is the order in which the candidate set
\* is iterated
correct(self, original_word, order) ==
    AfterLower(self, original_word, lower(original_word), order)

\* ------------------------------------------------------------ state machine
VARIABLES
    self,               \* the SpellingCorrector object
    fresh,              \* the object as __init__ left it
    mode,               \* "constructed", or how the last call was made
    original_word,      \* the argument of the last call
    word, candidates, scored_candidates,    \* its locals
    classified,         \* what _log_channel_prob found for each candidate
    outcome,            \* "none", "returned" or "raised"
    result,             \* the string returned
    line,               \* the line of the return statement
    prev_input, prev_outcome, prev_result   \* the call before a repeated or chained call

vars == <<self, fresh, mode, original_word, word, candidates, scored_candidates,
          classified, outcome, result, line, prev_input, prev_outcome, prev_result>>

Init ==
    /\ \E c \in Corpora, v \in VocabTables :
            self = Construct(c[1], c[2], c[3], c[4], c[5], v)
    /\ fresh = self
    /\ mode = "constructed"
    /\ original_word = <<>>
    /\ word = <<>>
    /\ candidates = Unset
    /\ scored_candidates = EmptyTable
    /\ classified = EmptyTable
    /\ outcome = "none"
    /\ result = NoResult
    /\ line = 0
    /\ prev_input = <<>>
    /\ prev_outcome = "none"
    /\ prev_result = NoResult

\* one call corrector.correct(w)
Call(w, order, how) ==
    \E r \in {correct(self, w, order)} :
       /\ self' = r.self
       /\ mode' = how
       /\ original_word' = w
       /\ word' = r.word
       /\ candidates' = r.candidates
       /\ scored_candidates' = r.scored
       /\ classified' = r.classified
       /\ outcome' = r.outcome
       /\ result' = r.result
       /\ line' = r.line
       /\ UNCHANGED fresh

\* a call with any input, made when no result is pending
Correct ==
    /\ outcome = "none"
    /\ \E w \in Inputs : \E order \in IterOrders(self, w) : Call(w, order, "call")
    /\ UNCHANGED <<prev_input, prev_outcome, prev_result>>

\* the same input once more
Repeat ==
    /\ mode = "call"
    /\ \E order \in IterOrders(self, original_word) : Call(original_word, order, "repeat")
    /\ prev_input' = original_word
    /\ prev_outcome' = outcome
    /\ prev_result' = result

\* correct(correct(s)): the returned string is the next input
Chain ==
    /\ mode = "call"
    /\ outcome = "returned"
    /\ \E order \in IterOrders(self, result) : Call(result, order, "chain")
    /\ prev_input' = original_word
    /\ prev_outcome' = outcome
    /\ prev_result' = result

\* the caller is done with the result (or has caught the exception); the
\* locals of the call are gone and only the object remains
Finish ==
    /\ outcome # "none"
    /\ mode' = "constructed"
    /\ original_word' = <<>>
    /\ word' = <<>>
    /\ candidates' = Unset
    /\ scored_candidates' = EmptyTable
    /\ classified' = EmptyTable
    /\ outcome' = "none"
    /\ result' = NoResult
    /\ line' = 0
    /\ prev_input' = <<>>
    /\ prev_outcome' = "none"
    /\ prev_result' = NoResult
    /\ UNCHANGED <<self, fresh>>

Next == Correct \/ Repeat \/ Chain \/ Finish

Spec == Init /\ [][Next]_vars

\* =============================================================== properties
\* one-edit neighbours, position by position (1-based positions)
RemoveAt(w, i) == [j \in 1..(Len(w) - 1) |-> IF j < i THEN w[j] ELSE w[j + 1]]

SwapAt(w, i) ==
    [j \in 1..Len(w) |-> IF j = i THEN w[i + 1] ELSE IF j = i + 1 THEN w[i] ELSE w[j]]

ReplaceAt(w, i, c) == [j \in 1..Len(w) |-> IF j = i THEN c ELSE w[j]]

\* c put after the first p characters, p in 0..Len(w)
InsertAt(w, p, c) ==
    [j \in 1..(Len(w) + 1) |-> IF j <= p THEN w[j] ELSE IF j = p + 1 THEN c ELSE w[j - 1]]

Removals(w) == {RemoveAt(w, i) : i \in 1..Len(w)}
Swaps(w) == {SwapAt(w, i) : i \in 1..(Len(w) - 1)}
Replacements(w) == {ReplaceAt(w, i, c) : i \in 1..Len(w), c \in Range(alphabet)}
Insertions(w) == {InsertAt(w, p, c) : p \in 0..Len(w), c \in Range(alphabet)}

OneEditAway(w) == Removals(w) \cup Swaps(w) \cup Replacements(w) \cup Insertions(w)

Lowercased(s) ==
    [i \in 1..Len(s) |->
        IF \E n \in 1..Len(Capitals) : Capitals[n] = s[i]
        THEN alphabet[CHOOSE n \in 1..Len(Capitals) : Capitals[n] = s[i]]
        ELSE s[i]]

Called == outcome # "none"
Generated == candidates # Unset

\* C1: a call whose input is a key of the vocabulary returns the input itself
\* from line 138, with no candidate set generated and no candidate scored.
C1_KnownWordReturned ==
    (Called /\ original_word \in DOMAIN self.vocab) =>
        /\ outcome = "returned"
        /\ result = original_word
        /\ ~Generated
        /\ DOMAIN scored_candidates = {}
        /\ DOMAIN classified = {}

C1_Witness ==
    /\ Called
    /\ original_word \in DOMAIN self.vocab
    /\ result = original_word
    /\ OneEditAway(original_word) \cap self.vocabulary # {original_word}

\* C2: when the lower-cased input is unknown and there are candidates, the
\* string returned is a candidate c with prior(c) * channel(c) >=
\* prior(d) * channel(d) for every candidate d, where prior(x) =
\* (vocab_freq(x) + 1) / (total_word_count + vocabulary_size).
PriorNum(x) == (IF x \in DOMAIN self.vocab THEN self.vocab[x] ELSE 0) + 1
PriorDen == self.total_word_count + Cardinality(self.vocabulary)
ChannelOf(x) == log_channel_prob(self, word, x)

\* prior(c) * channel(c) >= prior(d) * channel(d), cross-multiplied
AtLeast(c, d) ==
    PriorNum(c) * ChannelOf(c).num * PriorDen * ChannelOf(d).den
        >= PriorNum(d) * ChannelOf(d).num * PriorDen * ChannelOf(c).den

C2_ReturnsMaximalCandidate ==
    (outcome = "returned" /\ Lowercased(original_word) \notin self.vocabulary
        /\ Generated /\ candidates # {}) =>
        /\ result \in candidates
        /\ \A d \in candidates : AtLeast(result, d)

C2_Witness ==
    /\ outcome = "returned"
    /\ line = 157
    /\ Cardinality(candidates) >= 2
    /\ \E d \in candidates : ~AtLeast(d, result)
    /\ \E d \in candidates : PriorNum(d) > PriorNum(result)

\* C3: an input whose lower-cased form is unknown and has no vocabulary word
\* one edit away is returned exactly as given, in its original letter case.
C3_NoCandidateReturnsOriginal ==
    (Called /\ Lowercased(original_word) \notin self.vocabulary
        /\ OneEditAway(Lowercased(original_word)) \cap self.vocabulary = {}) =>
        /\ outcome = "returned"
        /\ result = original_word

C3_Witness ==
    /\ outcome = "returned"
    /\ line = 144
    /\ result = original_word
    /\ original_word # Lowercased(original_word)
    /\ self.vocabulary # {}

\* C4: the generated candidate set is exactly the set of vocabulary words one
\* deletion, adjacent swap, replacement by an alphabet letter or insertion of
\* an alphabet letter (at any position 0..len) away from the word.
C4_CandidatesExact ==
    Generated => candidates = OneEditAway(word) \cap self.vocabulary

C4_Witness ==
    /\ Generated
    /\ word # <<>>
    /\ \E c \in candidates : c \in {InsertAt(word, Len(word), x) : x \in Range(alphabet)}
    /\ Cardinality(candidates) >= 2

C4_WitnessEmptyWord ==
    /\ Generated
    /\ word = <<>>
    /\ candidates # {}

\* C5: every call returns a string; none ends in an error.
C5_NeverRaises == outcome # "raised"

\* C6: a repeated call with the same word on the same store returns what the
\* call before returned, whatever the iteration order of the candidate set.
C6_RepeatedCallSameResult ==
    (mode = "repeat") => (outcome = prev_outcome /\ result = prev_result)

\* C7: the tables, the vocabulary and the totals stay as __init__ left them,
\* and each call ends as the same call ends on the fresh object.
C7_StoreUnchanged ==
    /\ self = fresh
    /\ Called =>
         \E order \in IterOrders(fresh, original_word) :
            LET alone == correct(fresh, original_word, order)
            IN alone.outcome = outcome /\ alone.result = result

AbsentKeyRead(c) ==
    LET gets == ChannelOf(c).gets
    IN \/ \E k \in gets.unigram : k \notin DOMAIN fresh.unigram_counts
       \/ \E k \in gets.bigram : k \notin DOMAIN fresh.bigram_counts
       \/ \E k \in gets.sub : k \notin DOMAIN fresh.sub_counts
       \/ \E k \in gets.del : k \notin DOMAIN fresh.del_counts
       \/ \E k \in gets.add : k \notin DOMAIN fresh.add_counts

C7_Witness ==
    /\ mode = "repeat"
    /\ outcome = "returned"
    /\ \E c \in DOMAIN classified : AbsentKeyRead(c)

\* C8: every candidate handed to the channel model differs from the
\* lower-cased input and is classified as the one edit that relates the two;
\* none is unclassifiable.
KindMatches(c, kind) ==
    \/ kind = "deletion" /\ word \in Removals(c)
    \/ kind = "insertion" /\ c \in Removals(word)
    \/ kind = "substitution" /\ Len(c) = Len(word)
         /\ Cardinality({j \in 1..Len(c) : c[j] # word[j]}) = 1
    \/ kind = "transposition" /\ c \in Swaps(word)

C8_AlwaysClassified ==
    \A c \in DOMAIN classified :
        /\ c # word
        /\ classified[c].kind # "unclassifiable"
        /\ classified[c].num > 0
        /\ KindMatches(c, classified[c].kind)

C8_Witness ==
    /\ outcome = "returned"
    /\ \E c \in DOMAIN classified : classified[c].kind = "transposition"
    /\ \E c \in DOMAIN classified : classified[c].kind = "substitution"

\* C9: for a candidate one character longer than the typo the channel ratio
\* is (DeletionCounts[(prefix, deleted)] + 1) / (context + total_bigram_count)
\* with deleted the candidate character at the first divergence of the
\* '#'-prefixed strings, prefix the candidate character before it, and
\* context the bigram count of the two, or the unigram count of prefix when
\* the two do not form a bigram.
Marked(s) == <<"#">> \o s

FirstDivergence(c) ==
    CHOOSE j \in 1..Len(Marked(c)) :
        /\ j > Len(Marked(word)) \/ Marked(word)[j] # Marked(c)[j]
        /\ \A n \in 1..(j - 1) : Marked(word)[n] = Marked(c)[n]

ExpectedPrefix(c) == Marked(c)[FirstDivergence(c) - 1]
ExpectedDeleted(c) == Marked(c)[FirstDivergence(c)]

CountIn(table, key) == IF key \in DOMAIN table THEN table[key] ELSE 0

ExpectedContext(c) ==
    LET window == <<ExpectedPrefix(c), ExpectedDeleted(c)>>
    IN IF Len(window) = 2
       THEN CountIn(self.bigram_counts, window)
       ELSE CountIn(self.unigram_counts, ExpectedPrefix(c))

C9_DeletionRatio ==
    \A c \in DOMAIN scored_candidates :
        (Len(word) + 1 = Len(c)) =>
            /\ classified[c].kind = "deletion"
            /\ classified[c].num =
                 CountIn(self.del_counts, <<ExpectedPrefix(c), ExpectedDeleted(c)>>) + 1
            /\ classified[c].den = ExpectedContext(c) + self.total_bigram_count

C9_Witness ==
    /\ outcome = "returned"
    /\ \E c \in DOMAIN scored_candidates :
          /\ Len(word) + 1 = Len(c)
          /\ ExpectedPrefix(c) # "#"
          /\ ExpectedPrefix(c) # ExpectedDeleted(c)
          /\ <<ExpectedPrefix(c), ExpectedDeleted(c)>> \in DOMAIN self.del_counts

C9_WitnessAtStart ==
    /\ outcome = "returned"
    /\ \E c \in DOMAIN scored_candidates :
          Len(word) + 1 = Len(c) /\ ExpectedPrefix(c) = "#"

\* C10: correct(correct(s)) = correct(s): a call on the string a call
\* returned returns that string.
C10_Idempotent ==
    (mode = "chain") => (outcome = "returned" /\ result = original_word)

C10_Witness ==
    /\ mode = "chain"
    /\ result = original_word
    /\ prev_input # original_word
    /\ Len(prev_input) = Len(original_word)

C10_WitnessUnchanged ==
    /\ mode = "chain"
    /\ line = 144
    /\ result = prev_input
    /\ prev_input # Lowercased(prev_input)

====
